---- MODULE Spec2Model ----
(***************************************************************************)
(* Phaser.Physics.Matter.World (src/physics/matter-js/World.js): the       *)
(* timestep driver, the world-boundary manager, the engine event bridge,   *)
(* the collision id allocator, the World lifecycle and the debug renderer, *)
(* as a state machine.                                                     *)
(*                                                                         *)
(* Encodings.  A JavaScript value that may be undefined is a sequence of   *)
(* length 0 (undefined) or 1 (the value).  A body reference is the body's  *)
(* id, and null is NullBody.  A body's position is kept in half pixels     *)
(* (x2 = 2 * x) so that "x += width / 2" stays exact on integers.  A step  *)
(* size is the fraction <<numerator, denominator>> in milliseconds.  An    *)
(* opacity is kept in hundredths (1.0 = 100, 0.7 = 70).                    *)
(***************************************************************************)
EXTENDS Integers, Sequences, FiniteSets, TLC

VARIABLES
    enabled,                    \* World#enabled
    autoUpdate,                 \* World#autoUpdate
    correction,                 \* World#correction
    getDelta,                   \* World#getDelta (the name of the installed function)
    walls,                      \* World#walls: side -> body reference or NullBody
    bodies,                     \* World#localWorld.bodies
    nextBodyId,                 \* the engine's body id counter
    lastInclude,                \* history: side -> the last `add` updateWall was given
    engineEvents,               \* World#engine.events: notification -> callbacks
    listeners,                  \* listeners registered on the World's own emitter
    nextListenerId,             \* history: number of registrations made so far
    retired,                    \* history: registrations made before the last shutdown
    paused,                     \* history: pause() has run and resume() has not since
    nextCollidingGroupId,       \* Body._nextCollidingGroupId
    nextNonCollidingGroupId,    \* Body._nextNonCollidingGroupId
    nextCategoryId,             \* Body._nextCategory
    issued,                     \* history: ids handed out since the last reset
    drawDebug,                  \* World#drawDebug
    debugConfig,                \* World#debugConfig
    localWorld,                 \* bodies and constraints the host added to the world
    input,                      \* what the host hands to the renderer's public methods
    drawn,                      \* calls the last operation made on a Graphics object
    thrown,                     \* the error the last operation ended with, if any
    call                        \* observation of the last operation

vars == <<enabled, autoUpdate, correction, getDelta, walls, bodies, nextBodyId,
          lastInclude, engineEvents, listeners, nextListenerId, retired,
          nextCollidingGroupId, nextNonCollidingGroupId, nextCategoryId,
          issued, paused, drawDebug, debugConfig, localWorld, input, drawn, thrown,
          call>>

worldVars == <<enabled, autoUpdate, correction, getDelta>>
wallVars == <<walls, bodies, nextBodyId, lastInclude>>
busVars == <<engineEvents, listeners, nextListenerId, retired>>
idVars == <<nextCollidingGroupId, nextNonCollidingGroupId, nextCategoryId, issued>>
debugVars == <<drawDebug, debugConfig, localWorld, input, drawn, thrown>>

(***************************************************************************)
(* Bounds of the model.                                                    *)
(***************************************************************************)
MaxBodyId == 8
MaxIssued == 5
MaxListeners == 2
MaxVerts == 4
MaxLength == 105

(***************************************************************************)
(* Values.                                                                 *)
(***************************************************************************)
None == <<>>
Some(v) == <<v>>
IsSet(o) == Len(o) = 1
Val(o) == o[1]
Default(o, d) == IF IsSet(o) THEN Val(o) ELSE d

NullBody == 0
NoContent == [bodies |-> <<>>, constraints |-> <<>>]
NoInput == [kind |-> "none"]
Sides == {"left", "right", "top", "bottom"}

SceneWidth == 800
SceneHeight == 600

\* GetValue / GetFastValue: the value under `key`, or `def` when it is missing.
GetValue(config, key, def) ==
    IF key \in DOMAIN config THEN Default(config[key], def) ELSE def
GetFastValue(config, key, def) ==
    IF key \in DOMAIN config THEN Default(config[key], def) ELSE def

(***************************************************************************)
(* World boundary: create, updateWall, setBounds.  They work on the record *)
(* w = [walls, bodies, nextBodyId, lastInclude] and return the new record. *)
(***************************************************************************)
WallOptions == [isStatic |-> TRUE, friction |-> 0, frictionStatic |-> 0]

\* Bodies.rectangle: a new rectangular body centred on (x2 / 2, y2 / 2).
Bodies_rectangle(id, x2, y2, width, height, options) ==
    [id |-> id, x2 |-> x2, y2 |-> y2, width |-> width, height |-> height,
     isStatic |-> options.isStatic, friction |-> options.friction,
     frictionStatic |-> options.frictionStatic]

\* MatterWorld.add: appends the body to the composite.
MatterWorld_add(bs, body) == Append(bs, body)

\* MatterWorld.remove: takes the referenced body out of the composite.
MatterWorld_remove(bs, ref) == SelectSeq(bs, LAMBDA b : b.id # ref)

\* World#create: makes the body, adds it to the world, returns it.
create(w, x2, y2, width, height, options) ==
    LET body == Bodies_rectangle(w.nextBodyId, x2, y2, width, height, options)
    IN  [world |-> [w EXCEPT !.bodies = MatterWorld_add(@, body),
                             !.nextBodyId = @ + 1],
         body |-> body.id]

\* Mutant of updateWall: an excluded side keeps its slot.
updateWall_keepsSlot(w, add, position, x, y, width, height) ==
    LET wall == w.walls[position]
        noted == [w EXCEPT !.lastInclude[position] = Some(add)]
        cleared == IF wall # NullBody
                   THEN [noted EXCEPT !.bodies = MatterWorld_remove(@, wall)]
                   ELSE noted
    IN  IF add
        THEN LET made == create(cleared, 2 * x + width, 2 * y + height,
                                width, height, WallOptions)
             IN  [made.world EXCEPT !.walls[position] = made.body]
        ELSE cleared

\* Mutant of updateWall: an excluded side's body stays in the world.
updateWall_leavesBody(w, add, position, x, y, width, height) ==
    LET wall == w.walls[position]
        noted == [w EXCEPT !.lastInclude[position] = Some(add)]
    IN  IF add
        THEN LET cleared == IF wall # NullBody
                            THEN [noted EXCEPT !.bodies = MatterWorld_remove(@, wall)]
                            ELSE noted
                 made == create(cleared, 2 * x + width, 2 * y + height,
                                width, height, WallOptions)
             IN  [made.world EXCEPT !.walls[position] = made.body]
        ELSE [noted EXCEPT !.walls[position] = NullBody]

\* Mutant of updateWall: an included side gets a new body and keeps the old.
updateWall_keepsOld(w, add, position, x, y, width, height) ==
    LET wall == w.walls[position]
        noted == [w EXCEPT !.lastInclude[position] = Some(add)]
    IN  IF add
        THEN LET made == create(noted, 2 * x + width, 2 * y + height,
                                width, height, WallOptions)
             IN  [made.world EXCEPT !.walls[position] = made.body]
        ELSE LET cleared == IF wall # NullBody
                            THEN [noted EXCEPT !.bodies = MatterWorld_remove(@, wall)]
                            ELSE noted
             IN  [cleared EXCEPT !.walls[position] = NullBody]

\* World#updateWall
updateWall(w, add, position, x, y, width, height) ==
    LET wall == w.walls[position]
        noted == [w EXCEPT !.lastInclude[position] = Some(add)]
    IN  IF add
        THEN LET cleared == IF wall # NullBody
                            THEN [noted EXCEPT !.bodies = MatterWorld_remove(@, wall)]
                            ELSE noted
                 \* adjust center: x += width / 2, y += height / 2
                 made == create(cleared, 2 * x + width, 2 * y + height,
                                width, height, WallOptions)
             IN  [made.world EXCEPT !.walls[position] = made.body]
        ELSE LET cleared == IF wall # NullBody
                            THEN [noted EXCEPT !.bodies = MatterWorld_remove(@, wall)]
                            ELSE noted
             IN  [cleared EXCEPT !.walls[position] = NullBody]

\* World#setBounds: every argument may be undefined.
setBounds(w, ax, ay, awidth, aheight, athickness, aleft, aright, atop, abottom) ==
    LET x == Default(ax, 0)
        y == Default(ay, 0)
        width == Default(awidth, SceneWidth)
        height == Default(aheight, SceneHeight)
        thickness == Default(athickness, 128)
        left == Default(aleft, TRUE)
        right == Default(aright, TRUE)
        top == Default(atop, TRUE)
        bottom == Default(abottom, TRUE)
        w1 == updateWall(w, left, "left", x - thickness, y - thickness,
                         thickness, height + (thickness * 2))
        w2 == updateWall(w1, right, "right", x + width, y - thickness,
                         thickness, height + (thickness * 2))
        w3 == updateWall(w2, top, "top", x, y - thickness, width, thickness)
    IN  updateWall(w3, bottom, "bottom", x, y + height, width, thickness)

\* The boundary fields as the constructor leaves them at line 87.
NoWalls ==
    [walls |-> [s \in Sides |-> NullBody], bodies |-> <<>>, nextBodyId |-> 1,
     lastInclude |-> [s \in Sides |-> None]]

\* The argument list of a setBounds call with nothing passed.
NoBoundsArgs ==
    [x |-> None, y |-> None, width |-> None, height |-> None, thickness |-> None,
     left |-> None, right |-> None, top |-> None, bottom |-> None]

\* setBounds applied to an argument record.
setBoundsWith(w, a) ==
    setBounds(w, a.x, a.y, a.width, a.height, a.thickness,
              a.left, a.right, a.top, a.bottom)

\* The constructor's boundary setup (lines 87-111).  config.setBounds is
\* undefined, a boolean, or an object whose fields may be missing.
World_bounds(config) ==
    LET sb == config.setBounds
    IN  IF ~IsSet(sb) THEN NoWalls
        ELSE IF Val(sb).form = "boolean"
        THEN IF Val(sb).value THEN setBoundsWith(NoWalls, NoBoundsArgs) ELSE NoWalls
        ELSE LET boundsConfig == Val(sb).value
                 x == GetFastValue(boundsConfig, "x", 0)
                 y == GetFastValue(boundsConfig, "y", 0)
                 width == GetFastValue(boundsConfig, "width", SceneWidth)
                 height == GetFastValue(boundsConfig, "height", SceneHeight)
                 thickness == GetFastValue(boundsConfig, "thickness", 64)
                 left == GetFastValue(boundsConfig, "left", TRUE)
                 right == GetFastValue(boundsConfig, "right", TRUE)
                 top == GetFastValue(boundsConfig, "top", TRUE)
                 bottom == GetFastValue(boundsConfig, "bottom", TRUE)
             IN  setBounds(NoWalls, Some(x), Some(y), Some(width), Some(height),
                           Some(thickness), Some(left), Some(right), Some(top),
                           Some(bottom))

(***************************************************************************)
(* Event bridge.  An engine notification is [name, pairs]; a World event   *)
(* is [kind, args], args being the arguments handed to emit.               *)
(***************************************************************************)
Notifications ==
    {"beforeUpdate", "afterUpdate", "collisionStart", "collisionActive",
     "collisionEnd"}

\* MatterEvents.on: subscribes the callback to `name` on the object.
MatterEvents_on(events, name, callback) ==
    [events EXCEPT ![name] = Append(@, callback)]

\* MatterEvents.off(object): drops every subscription of the object.
MatterEvents_off(events) == [n \in Notifications |-> <<>>]

\* The callback of line 296.
onBeforeUpdate(event) == <<[kind |-> "BEFORE_UPDATE", args |-> <<event>>]>>

\* The callback of line 301.
onAfterUpdate(event) == <<[kind |-> "AFTER_UPDATE", args |-> <<event>>]>>

\* The callback of line 306.
onCollisionStart(event) ==
    LET pairs == event.pairs
        bodyA == IF Len(pairs) > 0 THEN Some(pairs[1].bodyA) ELSE None
        bodyB == IF Len(pairs) > 0 THEN Some(pairs[1].bodyB) ELSE None
    IN  <<[kind |-> "COLLISION_START", args |-> <<event, bodyA, bodyB>>]>>

\* The callback of line 321.
onCollisionActive(event) ==
    LET pairs == event.pairs
        bodyA == IF Len(pairs) > 0 THEN Some(pairs[1].bodyA) ELSE None
        bodyB == IF Len(pairs) > 0 THEN Some(pairs[1].bodyB) ELSE None
    IN  <<[kind |-> "COLLISION_ACTIVE", args |-> <<event, bodyA, bodyB>>]>>

\* Mutant of onCollisionEnd: reads the last pair of the list, not the first.
onCollisionEnd_lastPair(event) ==
    LET pairs == event.pairs
        bodyA == IF Len(pairs) > 0 THEN Some(pairs[Len(pairs)].bodyA) ELSE None
        bodyB == IF Len(pairs) > 0 THEN Some(pairs[Len(pairs)].bodyB) ELSE None
    IN  <<[kind |-> "COLLISION_END", args |-> <<event, bodyA, bodyB>>]>>

\* The callback of line 336.
onCollisionEnd(event) ==
    LET pairs == event.pairs
        bodyA == IF Len(pairs) > 0 THEN Some(pairs[1].bodyA) ELSE None
        bodyB == IF Len(pairs) > 0 THEN Some(pairs[1].bodyB) ELSE None
    IN  <<[kind |-> "COLLISION_END", args |-> <<event, bodyA, bodyB>>]>>

\* Mutant of setEventsProxy: the beforeUpdate callback is subscribed twice.
setEventsProxy_twice(events) ==
    LET e0 == MatterEvents_on(events, "beforeUpdate", "onBeforeUpdate")
        e1 == MatterEvents_on(e0, "beforeUpdate", "onBeforeUpdate")
        e2 == MatterEvents_on(e1, "afterUpdate", "onAfterUpdate")
        e3 == MatterEvents_on(e2, "collisionStart", "onCollisionStart")
        e4 == MatterEvents_on(e3, "collisionActive", "onCollisionActive")
    IN  MatterEvents_on(e4, "collisionEnd", "onCollisionEnd")

\* World#setEventsProxy: the five subscriptions, in source order.
setEventsProxy(events) ==
    LET e1 == MatterEvents_on(events, "beforeUpdate", "onBeforeUpdate")
        e2 == MatterEvents_on(e1, "afterUpdate", "onAfterUpdate")
        e3 == MatterEvents_on(e2, "collisionStart", "onCollisionStart")
        e4 == MatterEvents_on(e3, "collisionActive", "onCollisionActive")
    IN  MatterEvents_on(e4, "collisionEnd", "onCollisionEnd")

\* Running a subscribed callback: the World events it emits.
Invoke(callback, event) ==
    CASE callback = "onBeforeUpdate" -> onBeforeUpdate(event)
      [] callback = "onAfterUpdate" -> onAfterUpdate(event)
      [] callback = "onCollisionStart" -> onCollisionStart(event)
      [] callback = "onCollisionActive" -> onCollisionActive(event)
      [] callback = "onCollisionEnd" -> onCollisionEnd(event)

RECURSIVE Flatten(_)
Flatten(ss) == IF ss = <<>> THEN <<>> ELSE Head(ss) \o Flatten(Tail(ss))

\* MatterEvents.trigger: runs the callbacks subscribed to the notification,
\* in subscription order, before it returns.
MatterEvents_trigger(events, event) ==
    Flatten([i \in 1..Len(events[event.name]) |->
                Invoke(events[event.name][i], event)])

\* Engine.update: one engine step.  `run` is the sequence of notifications
\* this step raises; each is triggered, in order, inside the step.
Engine_update(events, run) ==
    Flatten([i \in 1..Len(run) |-> MatterEvents_trigger(events, run[i])])

\* EventEmitter#emit: calls the listeners registered for the event's kind,
\* in registration order, before it returns.
emit(ls, e) ==
    LET mine == SelectSeq(ls, LAMBDA l : l.kind = e.kind)
    IN  [i \in 1..Len(mine) |-> [listener |-> mine[i].id, event |-> e]]

\* The listener calls made by a sequence of emits.
emitAll(ls, es) == Flatten([i \in 1..Len(es) |-> emit(ls, es[i])])

(***************************************************************************)
(* Timestep driver.  They work on d = [enabled, autoUpdate, correction,    *)
(* getDelta]; update and step return the calls they make.                  *)
(***************************************************************************)
\* World#update60Hz
update60Hz == <<1000, 60>>

\* World#update30Hz
update30Hz == <<1000, 30>>

\* Calling the function installed as getDelta; "hostDelta" is a function
\* supplied by the caller that returns the host's frame delta.
callGetDelta(fn, time, delta) ==
    CASE fn = "update60Hz" -> update60Hz
      [] fn = "update30Hz" -> update30Hz
      [] fn = "hostDelta" -> <<delta, 1>>

NoCalls == [engine |-> <<>>, getDelta |-> <<>>]

\* Mutant of update: steps when either flag is set.
update_either(d, time, delta) ==
    IF d.enabled \/ d.autoUpdate
    THEN [engine |-> <<[delta |-> Some(callGetDelta(d.getDelta, time, delta)),
                        correction |-> Some(d.correction)]>>,
          getDelta |-> <<[time |-> time, delta |-> delta]>>]
    ELSE NoCalls

\* An update that steps by 1000 / 60 with correction 1 whatever is installed.
update_defaults(d, time, delta) ==
    IF d.enabled /\ d.autoUpdate
    THEN [engine |-> <<[delta |-> Some(update60Hz), correction |-> Some(1)]>>,
          getDelta |-> <<[time |-> time, delta |-> delta]>>]
    ELSE NoCalls

\* World#update: the Engine.update and getDelta calls it makes.
update(d, time, delta) ==
    IF d.enabled /\ d.autoUpdate
    THEN [engine |-> <<[delta |-> Some(callGetDelta(d.getDelta, time, delta)),
                        correction |-> Some(d.correction)]>>,
          getDelta |-> <<[time |-> time, delta |-> delta]>>]
    ELSE NoCalls

\* World#step: delta and correction may be undefined.
step(d, delta, corr) ==
    [engine |-> <<[delta |-> delta, correction |-> corr]>>, getDelta |-> <<>>]

\* Mutant of pause: disables the World without emitting PAUSE.
pause_silent(d) == [world |-> [d EXCEPT !.enabled = FALSE], emits |-> <<>>]

\* World#pause: the new fields and the event emitted.
pause(d) ==
    [world |-> [d EXCEPT !.enabled = FALSE],
     emits |-> <<[kind |-> "PAUSE", args |-> <<>>]>>]

\* World#resume
resume(d) ==
    [world |-> [d EXCEPT !.enabled = TRUE],
     emits |-> <<[kind |-> "RESUME", args |-> <<>>]>>]

(***************************************************************************)
(* Collision id allocator.  ids = [colliding, nonColliding, category] are  *)
(* the three counters kept on Body, shared by every World.                 *)
(***************************************************************************)
\* x << 1 on a 32-bit signed integer (2^30 = 1073741824, 2^31 - 1 = 2147483647).
ShiftLeft1(x) ==
    IF x >= 1073741824 THEN (2 * (x - 1073741824) - 2147483647) - 1
    ELSE IF x < -1073741824 THEN (2 * (x + 1073741824) + 1) + 2147483647
    ELSE 2 * x

\* Body.nextGroup: the counter is returned, then advanced.
Body_nextGroup(ids, isNonColliding) ==
    IF IsSet(isNonColliding) /\ Val(isNonColliding)
    THEN [ret |-> ids.nonColliding, ids |-> [ids EXCEPT !.nonColliding = @ - 1]]
    ELSE [ret |-> ids.colliding, ids |-> [ids EXCEPT !.colliding = @ + 1]]

\* Body.nextCategory: the counter is returned, then shifted left by one bit.
Body_nextCategory(ids) ==
    [ret |-> ids.category, ids |-> [ids EXCEPT !.category = ShiftLeft1(@)]]

\* Mutant of nextGroup: the argument is not passed on.
nextGroup_alwaysColliding(ids, isNonColliding) == Body_nextGroup(ids, None)

\* World#nextGroup
nextGroup(ids, isNonColliding) == Body_nextGroup(ids, isNonColliding)

\* World#nextCategory
nextCategory(ids) == Body_nextCategory(ids)

\* Mutant of resetCollisionIDs: the category counter is not reset.
resetCollisionIDs_groupsOnly(ids) ==
    [colliding |-> 1, nonColliding |-> -1, category |-> ids.category]

\* World#resetCollisionIDs
resetCollisionIDs(ids) == [colliding |-> 1, nonColliding |-> -1, category |-> 1]

\* The counters as Body defines them when the module is loaded.
InitialIds == [colliding |-> 1, nonColliding |-> -1, category |-> 1]

(***************************************************************************)
(* Lifecycle.                                                              *)
(***************************************************************************)
\* EventEmitter#removeAllListeners
removeAllListeners(ls) == <<>>

\* MatterWorld.clear(world, keepStatic): without keepStatic no body stays.
MatterWorld_clear(bs, keepStatic) ==
    IF keepStatic THEN SelectSeq(bs, LAMBDA b : b.isStatic) ELSE <<>>

\* Mutant of shutdown: the World's own listeners are not removed.
shutdown_keepsListeners(s) ==
    [engineEvents |-> MatterEvents_off(s.engineEvents),
     listeners |-> s.listeners,
     bodies |-> MatterWorld_clear(s.bodies, FALSE)]

\* World#shutdown on s = [engineEvents, listeners, bodies].
shutdown(s) ==
    [engineEvents |-> MatterEvents_off(s.engineEvents),
     listeners |-> removeAllListeners(s.listeners),
     bodies |-> MatterWorld_clear(s.bodies, FALSE)]

\* World#destroy
destroy(s) == shutdown(s)

\* The constructor's debug section (lines 179-275): drawDebug and debugConfig.
\* `debug` is missing, a boolean (the legacy form) or an object of overrides.
World_debug(config) ==
    LET given == GetValue(config, "debug", [form |-> "boolean", value |-> FALSE])
        wireframes == GetFastValue(config, "debugWireframes", TRUE)
        legacy ==
            [showBody |-> Some(GetFastValue(config, "debugShowBody", TRUE)),
             showStaticBody |-> Some(GetFastValue(config, "debugShowStaticBody", TRUE)),
             showSleeping |-> Some(GetFastValue(config, "debugShowSleeping", FALSE)),
             showJoint |-> Some(GetFastValue(config, "debugShowJoint", TRUE)),
             showInternalEdges |->
                 Some(GetFastValue(config, "debugShowInternalEdges", FALSE)),
             showConvexHulls |->
                 Some(GetFastValue(config, "debugShowConvexHulls", FALSE)),
             renderFill |-> Some(~wireframes),
             renderStroke |-> Some(wireframes),
             fillColor |-> Some(GetFastValue(config, "debugBodyFillColor", 14919651)),
             strokeColor |-> Some(GetFastValue(config, "debugBodyColor", 16711935)),
             staticFillColor |->
                 Some(GetFastValue(config, "debugStaticBodyColor", 255)),
             staticStrokeColor |->
                 Some(GetFastValue(config, "debugStaticBodyColor", 255)),
             staticBodySleepOpacity |-> Some(50),
             jointColor |-> Some(GetFastValue(config, "debugJointColor", 0)),
             hullColor |-> Some(GetFastValue(config, "debugConvexHullColor", 11184810))]
        dc == IF given.form = "boolean" THEN legacy ELSE given.value
    IN  [drawDebug |-> IF given.form = "boolean" THEN given.value ELSE TRUE,
         debugConfig |->
            [showBody |-> GetFastValue(dc, "showBody", TRUE),
             showStaticBody |-> GetFastValue(dc, "showStaticBody", TRUE),
             showSleeping |-> GetFastValue(dc, "showSleeping", FALSE),
             showJoint |-> GetFastValue(dc, "showJoint", TRUE),
             showInternalEdges |-> GetFastValue(dc, "showInternalEdges", FALSE),
             showConvexHulls |-> GetFastValue(dc, "showConvexHulls", FALSE),
             renderFill |-> GetFastValue(dc, "renderFill", TRUE),
             renderStroke |-> GetFastValue(dc, "renderStroke", TRUE),
             lineThickness |-> GetFastValue(dc, "lineThickness", 1),
             fillColor |-> GetFastValue(dc, "fillColor", 1075465),
             strokeColor |-> GetFastValue(dc, "strokeColor", 2678297),
             staticFillColor |-> GetFastValue(dc, "staticFillColor", 857979),
             staticStrokeColor |-> GetFastValue(dc, "staticStrokeColor", 1255396),
             staticBodySleepOpacity |-> GetFastValue(dc, "staticBodySleepOpacity", 70),
             sleepFillColor |-> GetFastValue(dc, "sleepFillColor", 4605510),
             sleepStrokeColor |-> GetFastValue(dc, "sleepStrokeColor", 10066585),
             jointColor |-> GetFastValue(dc, "jointColor", 14737474),
             jointLineThickness |-> GetFastValue(dc, "jointLineThickness", 2),
             pinSize |-> GetFastValue(dc, "pinSize", 4),
             pinColor |-> GetFastValue(dc, "pinColor", 4382944),
             springColor |-> GetFastValue(dc, "springColor", 14697184),
             anchorColor |-> GetFastValue(dc, "anchorColor", 15724527),
             anchorSize |-> GetFastValue(dc, "anchorSize", 6),
             hullColor |-> GetFastValue(dc, "hullColor", 14091216)]]

\* The constructor (lines 42-283): the fields of a new World.
World(config) ==
    LET b == World_bounds(config)
    IN  [drawDebug |-> World_debug(config).drawDebug,
         debugConfig |-> World_debug(config).debugConfig,
         walls |-> b.walls, bodies |-> b.bodies, nextBodyId |-> b.nextBodyId,
         lastInclude |-> b.lastInclude,
         enabled |-> GetValue(config, "enabled", TRUE),
         correction |-> GetValue(config, "correction", 1),
         getDelta |-> GetValue(config, "getDelta", "update60Hz"),
         autoUpdate |-> GetValue(config, "autoUpdate", TRUE),
         engineEvents |-> setEventsProxy([n \in Notifications |-> <<>>])]

(***************************************************************************)
(* Debug renderer: postUpdate, renderBodies, renderBody, renderConvexHull, *)
(* renderJoints, renderConstraint.  Each returns the calls it makes on the *)
(* Graphics object, in order.  A call is logged with the method, its       *)
(* arguments, the World method that made it and the id of the body or      *)
(* constraint being rendered (0 when there is none).                       *)
(***************************************************************************)
Gfx(op, a, by, id) == [op |-> op, a |-> a, by |-> by, id |-> id]

Vector_add(a, b) == [x |-> a.x + b.x, y |-> a.y + b.y]
Vector_sub(a, b) == [x |-> a.x - b.x, y |-> a.y - b.y]

\* `!opacity` (line 928): null, undefined and 0 are all falsy.
usePartOpacity(opacity) == ~IsSet(opacity) \/ Val(opacity) = 0

\* A polygon path without the move forward past an internal vertex.
polygonPath_noForwardBreak(vertices, showInternalEdges, id) ==
    <<Gfx("beginPath", <<>>, "renderBody", id),
      Gfx("moveTo", <<vertices[1].x, vertices[1].y>>, "renderBody", id)>>
    \o [j \in 1..(Len(vertices) - 1) |->
           Gfx(IF ~vertices[j].isInternal \/ showInternalEdges
               THEN "lineTo" ELSE "moveTo",
               <<vertices[j + 1].x, vertices[j + 1].y>>, "renderBody", id)]
    \o <<Gfx("closePath", <<>>, "renderBody", id)>>

\* A polygon path that breaks before an internal vertex instead of after it.
polygonPath_breaksBefore(vertices, showInternalEdges, id) ==
    <<Gfx("beginPath", <<>>, "renderBody", id),
      Gfx("moveTo", <<vertices[1].x, vertices[1].y>>, "renderBody", id)>>
    \o [j \in 1..(Len(vertices) - 1) |->
           Gfx(IF ~vertices[j + 1].isInternal \/ showInternalEdges
               THEN "lineTo" ELSE "moveTo",
               <<vertices[j + 1].x, vertices[j + 1].y>>, "renderBody", id)]
    \o <<Gfx("closePath", <<>>, "renderBody", id)>>

\* The polygon path of one part (lines 959-987).  Vertex j of the source is
\* vertices[j + 1] here.
polygonPath(vertices, showInternalEdges, id) ==
    LET vertLength == Len(vertices)
        to(op, v) == Gfx(op, <<v.x, v.y>>, "renderBody", id)
        visit(j) ==
            LET vert == vertices[j + 1]
                nextIndex == (j + 1) % vertLength
            IN  <<IF ~vertices[j].isInternal \/ showInternalEdges
                  THEN to("lineTo", vert)
                  ELSE to("moveTo", vert)>>
                \o IF vert.isInternal /\ ~showInternalEdges
                   THEN <<to("moveTo", vertices[nextIndex + 1])>>
                   ELSE <<>>
    IN  <<Gfx("beginPath", <<>>, "renderBody", id), to("moveTo", vertices[1])>>
        \o Flatten([j \in 1..(vertLength - 1) |-> visit(j)])
        \o <<Gfx("closePath", <<>>, "renderBody", id)>>

\* The line segments <<from, to>> of a path on the Graphics object: lineTo
\* draws from the pen to its point, moveTo starts a new subpath, closePath
\* draws from the pen back to the start of the current subpath.
RECURSIVE SegmentsFrom(_, _, _, _)
SegmentsFrom(ops, i, pen, start) ==
    IF i > Len(ops)
    THEN {}
    ELSE LET g == ops[i]
         IN  CASE g.op = "beginPath" -> SegmentsFrom(ops, i + 1, None, None)
               [] g.op = "moveTo" -> SegmentsFrom(ops, i + 1, Some(g.a), Some(g.a))
               [] g.op = "lineTo" ->
                    (IF IsSet(pen) THEN {<<Val(pen), g.a>>} ELSE {})
                    \cup SegmentsFrom(ops, i + 1, Some(g.a),
                                      IF IsSet(start) THEN start ELSE Some(g.a))
               [] g.op = "closePath" ->
                    (IF IsSet(pen) /\ pen # start THEN {<<Val(pen), Val(start)>>}
                     ELSE {})
                    \cup SegmentsFrom(ops, i + 1, start, start)
               [] OTHER -> SegmentsFrom(ops, i + 1, pen, start)

Segments(ops) == SegmentsFrom(ops, 1, None, None)

\* One pass of renderBody's loop over the parts (lines 936-999), with the
\* opacity already resolved for this part.
renderPart(part, showInternalEdges, lineColor, fillColor, opacity, lineThickness, id) ==
    IF ~part.render.visible \/ opacity = 0
    THEN <<>>
    ELSE (IF part.circleRadius # 0
          THEN <<Gfx("beginPath", <<>>, "renderBody", id),
                 Gfx("arc", <<part.position.x, part.position.y, part.circleRadius>>,
                     "renderBody", id)>>
          ELSE polygonPath(part.vertices, showInternalEdges, id))
         \o (IF IsSet(fillColor)
             THEN <<Gfx("fillStyle", <<Val(fillColor), opacity>>, "renderBody", id),
                    Gfx("fillPath", <<>>, "renderBody", id)>>
             ELSE <<>>)
         \o (IF IsSet(lineColor)
             THEN <<Gfx("lineStyle", <<lineThickness, Val(lineColor), opacity>>,
                        "renderBody", id),
                    Gfx("strokePath", <<>>, "renderBody", id)>>
             ELSE <<>>)

\* renderBody (lines 921-1003).  lineColor, fillColor, opacity and
\* lineThickness may be None (null or undefined).
renderBody(body, showInternalEdges, lineColor, fillColor, opacity, lineThickness) ==
    LET parts == body.parts
        partsLength == Len(parts)
        first == IF partsLength > 1 THEN 1 ELSE 0
        resolved(part) ==
            IF usePartOpacity(opacity) THEN part.render.opacity ELSE Val(opacity)
    IN  Flatten([k \in 1..(partsLength - first) |->
                    renderPart(parts[k + first], showInternalEdges, lineColor,
                               fillColor, resolved(parts[k + first]),
                               Default(lineThickness, 1), body.id)])

\* A hull outline that stops at the last vertex.
renderConvexHull_open(body, hullColor, lineThickness) ==
    IF Len(body.parts) > 1
    THEN <<Gfx("lineStyle", <<Default(lineThickness, 1), hullColor>>,
               "renderConvexHull", body.id),
           Gfx("beginPath", <<>>, "renderConvexHull", body.id),
           Gfx("moveTo", <<body.vertices[1].x, body.vertices[1].y>>,
               "renderConvexHull", body.id)>>
         \o [v \in 1..(Len(body.vertices) - 1) |->
                Gfx("lineTo", <<body.vertices[v + 1].x, body.vertices[v + 1].y>>,
                    "renderConvexHull", body.id)]
         \o <<Gfx("strokePath", <<>>, "renderConvexHull", body.id)>>
    ELSE <<>>

\* renderConvexHull (lines 1021-1050).
renderConvexHull(body, hullColor, lineThickness) ==
    LET verts == body.vertices
        at(op, v) == Gfx(op, <<v.x, v.y>>, "renderConvexHull", body.id)
    IN  IF Len(body.parts) > 1
        THEN <<Gfx("lineStyle", <<Default(lineThickness, 1), hullColor>>,
                   "renderConvexHull", body.id),
               Gfx("beginPath", <<>>, "renderConvexHull", body.id),
               at("moveTo", verts[1])>>
             \o [v \in 1..(Len(verts) - 1) |-> at("lineTo", verts[v + 1])]
             \o <<at("lineTo", verts[1]),
                  Gfx("strokePath", <<>>, "renderConvexHull", body.id)>>
        ELSE <<>>

\* Filters that look at the show flags only.
skipped_flagsOnly(body, config) ==
    \/ ~config.showStaticBody /\ body.isStatic
    \/ ~config.showBody /\ ~body.isStatic

\* The two filters of renderBodies (lines 846-856).
skipped(body, config) ==
    \/ ~body.render.visible
    \/ ~config.showStaticBody /\ body.isStatic
    \/ ~config.showBody /\ ~body.isStatic

\* The style renderBodies resolves for one body (lines 858-889).
bodyStyle(body, config) ==
    LET sleeping == config.showSleeping /\ body.isSleeping
        opacity == IF sleeping /\ body.isStatic
                   THEN (body.render.opacity * config.staticBodySleepOpacity) \div 100
                   ELSE body.render.opacity
        lineStyle == IF body.isStatic THEN config.staticStrokeColor
                     ELSE IF sleeping THEN config.sleepStrokeColor
                     ELSE config.strokeColor
        fillStyle == IF body.isStatic THEN config.staticFillColor
                     ELSE IF sleeping THEN config.sleepFillColor
                     ELSE config.fillColor
    IN  [opacity |-> opacity,
         lineStyle |-> IF config.renderStroke THEN Some(lineStyle) ELSE None,
         fillStyle |-> IF config.renderFill THEN Some(fillStyle) ELSE None]

\* renderBodies (lines 813-900).
renderBodies(all, config) ==
    LET one(body) ==
            IF skipped(body, config)
            THEN <<>>
            ELSE renderBody(body, config.showInternalEdges,
                            bodyStyle(body, config).lineStyle,
                            bodyStyle(body, config).fillStyle,
                            Some(bodyStyle(body, config).opacity),
                            Some(config.lineThickness))
                 \o IF config.showConvexHulls /\ Len(body.parts) > 1
                    THEN renderConvexHull(body, config.hullColor,
                                          Some(config.lineThickness))
                    ELSE <<>>
    IN  Flatten([i \in 1..Len(all) |-> one(all[i])])

\* Common.clamp and Math.ceil on a fraction <<numerator, denominator>>.
Common_clamp(value, min, max) ==
    IF value[1] < min * value[2] THEN <<min, 1>>
    ELSE IF value[1] > max * value[2] THEN <<max, 1>>
    ELSE value
Math_ceil(value) == -((-value[1]) \div value[2])

\* Common.colorToNumber on the style strings the model uses.
Common_colorToNumber(style) ==
    CASE style = "#ff0000" -> 16711680
      [] style = "#00ff00" -> 65280
      [] OTHER -> 0

\* A coil count without the clamp.
coils_unclamped(constraint) == Math_ceil(<<constraint.length, 5>>)

\* The number of coils of a spring (line 1170).
coils(constraint) == Math_ceil(Common_clamp(<<constraint.length, 5>>, 12, 20))

\* The zig-zag of a spring (lines 1172-1180).  A coordinate
\* start + delta * (j / coils) + normal * offset * 4 is kept as its terms.
zigzag(constraint, start, end) ==
    LET delta == Vector_sub(end, start)
        n == coils(constraint)
        term(axis, j) ==
            [start |-> start[axis], delta |-> delta[axis], j |-> j, coils |-> n,
             normal |-> axis, offset |-> IF j % 2 = 0 THEN 1 ELSE -1]
    IN  [j \in 1..(n - 1) |->
            Gfx("lineTo", <<term("x", j), term("y", j)>>, "renderConstraint",
                constraint.id)]

\* renderConstraint (lines 1104-1197): the calls made, and the error the
\* method ends with.  `end` stays undefined for a pin, and reading `end.x`
\* (line 1193) is then a TypeError.
renderConstraint(constraint, lineColor, lineThickness, springColor, pinColor, pinSize, anchorColor, anchorSize) ==
    LET render == constraint.render
        custom == render.custom
        g(op, a) == Gfx(op, a, "renderConstraint", constraint.id)
        start == IF IsSet(constraint.bodyA)
                 THEN Vector_add(Val(constraint.bodyA).position, Val(constraint.pointA))
                 ELSE Val(constraint.pointA)
        end == IF render.type = "pin" THEN None
               ELSE IF IsSet(constraint.bodyB)
               THEN Some(Vector_add(Val(constraint.bodyB).position,
                                    Val(constraint.pointB)))
               ELSE Some(Val(constraint.pointB))
        style == <<IF custom
                   THEN g("lineStyle", <<render.lineWidth,
                                         Common_colorToNumber(render.strokeStyle)>>)
                   ELSE g("lineStyle", <<lineThickness, lineColor>>)>>
        pin == (IF ~custom THEN <<g("lineStyle", <<lineThickness, pinColor>>)>>
                ELSE <<>>)
               \o <<g("strokeCircle", <<start.x, start.y, pinSize>>)>>
        line == <<g("beginPath", <<>>), g("moveTo", <<start.x, start.y>>)>>
                \o (IF render.type = "spring"
                    THEN (IF ~custom
                          THEN <<g("lineStyle", <<lineThickness, springColor>>)>>
                          ELSE <<>>)
                         \o zigzag(constraint, start, Val(end))
                    ELSE <<>>)
                \o <<g("lineTo", <<Val(end).x, Val(end).y>>)>>
        stroke == style \o (IF render.type = "pin" THEN pin ELSE line)
                  \o <<g("strokePath", <<>>)>>
        anchors == <<g("fillStyle", <<anchorColor>>),
                     g("fillCircle", <<start.x, start.y, anchorSize>>)>>
    IN  IF ~render.visible \/ ~IsSet(constraint.pointA) \/ ~IsSet(constraint.pointB)
        THEN [ops |-> <<>>, thrown |-> None]
        ELSE IF ~(render.anchors /\ anchorSize > 0)
        THEN [ops |-> stroke, thrown |-> None]
        ELSE IF IsSet(end)
        THEN [ops |-> stroke \o anchors
                      \o <<g("fillCircle", <<Val(end).x, Val(end).y, anchorSize>>)>>,
              thrown |-> None]
        ELSE [ops |-> stroke \o anchors, thrown |-> Some("TypeError")]

\* renderJoints (lines 1061-1081): the constraints in order, up to the first
\* one whose rendering throws.
RECURSIVE renderJointsFrom(_, _, _)
renderJointsFrom(constraints, i, config) ==
    IF i > Len(constraints)
    THEN [ops |-> <<>>, thrown |-> None]
    ELSE LET r == renderConstraint(constraints[i], config.jointColor,
                                   config.jointLineThickness, config.springColor,
                                   config.pinColor, config.pinSize,
                                   config.anchorColor, config.anchorSize)
             rest == renderJointsFrom(constraints, i + 1, config)
         IN  IF IsSet(r.thrown)
             THEN r
             ELSE [ops |-> r.ops \o rest.ops, thrown |-> rest.thrown]

renderJoints(content, config) == renderJointsFrom(content.constraints, 1, config)

\* A postUpdate that renders whatever drawDebug and the show flags say.
postUpdate_ungated(draw, config, content) ==
    LET joints == renderJoints(content, config)
    IN  [ops |-> <<Gfx("clear", <<>>, "postUpdate", 0)>>
                 \o renderBodies(content.bodies, config) \o joints.ops,
         thrown |-> joints.thrown]

\* postUpdate (lines 777-800).
postUpdate(draw, config, content) ==
    IF ~draw \/ (~config.showBody /\ ~config.showStaticBody /\ ~config.showJoint)
    THEN [ops |-> <<>>, thrown |-> None]
    ELSE LET cleared == <<Gfx("clear", <<>>, "postUpdate", 0)>>
             shown == renderBodies(content.bodies, config)
             joints == renderJoints(content, config)
         IN  IF config.showJoint
             THEN [ops |-> cleared \o shown \o joints.ops, thrown |-> joints.thrown]
             ELSE [ops |-> cleared \o shown, thrown |-> None]

(***************************************************************************)
(* Inputs.                                                                 *)
(***************************************************************************)
Worlds == {"worldA", "worldB"}

Times == {0}
Deltas == {16, 33}
StepArgs == {<<None, None>>, <<Some(<<10, 1>>), None>>, <<Some(<<10, 1>>), Some(2)>>}

PairLists ==
    {<<>>, <<[bodyA |-> 3, bodyB |-> 1], [bodyA |-> 2, bodyB |-> 3]>>}

MaybePairs == {None} \cup {Some(p) : p \in PairLists}

Raise(name, pairs) ==
    IF IsSet(pairs) THEN <<[name |-> name, pairs |-> Val(pairs)]>> ELSE <<>>

\* What one engine step may raise: beforeUpdate, then any of the three
\* collision notifications, then afterUpdate.
EngineRuns ==
    {Raise("beforeUpdate", Some(<<>>)) \o Raise("collisionStart", s)
        \o Raise("collisionActive", a) \o Raise("collisionEnd", e)
        \o Raise("afterUpdate", Some(<<>>)) :
     s \in MaybePairs, a \in MaybePairs, e \in MaybePairs}

ListenKinds == {"AFTER_UPDATE", "COLLISION_END", "PAUSE"}

OmitOrFalse == {None, Some(FALSE)}
AllTrue == [left |-> Some(TRUE), right |-> Some(TRUE), top |-> Some(TRUE),
            bottom |-> Some(TRUE)]
FlagArgs ==
    [left : OmitOrFalse, right : OmitOrFalse, top : OmitOrFalse,
     bottom : OmitOrFalse] \cup {AllTrue, [AllTrue EXCEPT !.left = Some(FALSE)]}

RectArgs ==
    {[x |-> None, y |-> None, width |-> None, height |-> None, thickness |-> None],
     [x |-> Some(0), y |-> Some(0), width |-> Some(800), height |-> Some(600),
      thickness |-> None],
     [x |-> Some(0), y |-> Some(0), width |-> Some(400), height |-> Some(300),
      thickness |-> Some(64)]}

BoundsArgs ==
    {[x |-> r.x, y |-> r.y, width |-> r.width, height |-> r.height,
      thickness |-> r.thickness, left |-> f.left, right |-> f.right,
      top |-> f.top, bottom |-> f.bottom] : r \in RectArgs, f \in FlagArgs}

NoBoundsConfig ==
    [x |-> None, y |-> None, width |-> None, height |-> None, thickness |-> None,
     left |-> None, right |-> None, top |-> None, bottom |-> None]

BoundsConfigs ==
    {None,
     Some([form |-> "boolean", value |-> TRUE]),
     Some([form |-> "object", value |-> NoBoundsConfig]),
     Some([form |-> "object",
           value |-> [NoBoundsConfig EXCEPT !.left = Some(FALSE)]]),
     Some([form |-> "object",
           value |-> [NoBoundsConfig EXCEPT !.thickness = Some(128)]])}

DefaultConfig ==
    [setBounds |-> None, enabled |-> None, correction |-> None,
     getDelta |-> None, autoUpdate |-> None, debug |-> None]

\* Configurations for the timestep driver.
Configs ==
    [setBounds : {Some([form |-> "boolean", value |-> TRUE])},
     enabled : {None, Some(FALSE)},
     correction : {None, Some(2)},
     getDelta : {None, Some("update30Hz"), Some("hostDelta")},
     autoUpdate : {None, Some(FALSE)},
     debug : {None}]

\* Configurations for the world boundary.
BoundsOnlyConfigs == {[DefaultConfig EXCEPT !.setBounds = b] : b \in BoundsConfigs}

(***************************************************************************)
(* Inputs of the debug renderer: the fields of engine bodies and           *)
(* constraints that the renderer reads.                                    *)
(***************************************************************************)
Opacities == {0, 50, 100}

Vertex(x, y, isInternal) == [x |-> x, y |-> y, isInternal |-> isInternal]

Part(visible, opacity, circleRadius, vertices) ==
    [render |-> [visible |-> visible, opacity |-> opacity],
     position |-> [x |-> vertices[1].x, y |-> vertices[1].y],
     circleRadius |-> circleRadius, vertices |-> vertices]

\* A body: its first part is itself, the others are the parts of a compound.
Body(id, isStatic, isSleeping, self, others) ==
    [id |-> id, isStatic |-> isStatic, isSleeping |-> isSleeping,
     render |-> self.render, position |-> self.position,
     circleRadius |-> self.circleRadius, vertices |-> self.vertices,
     parts |-> <<self>> \o others]

\* A polygon of n vertices around (100 * id, 0); `internal` is the set of
\* source indices (0 .. n - 1) of the vertices flagged internal.
Polygon(id, n, internal) ==
    [k \in 1..n |-> Vertex(100 * id + 10 * k, k * k, (k - 1) \in internal)]

\* The two halves of the quadrilateral Polygon(id, 4, {}), cut along the
\* diagonal from vertex 0 to vertex 2, which is internal in both.
Halves(id, visible, opacity) ==
    LET q == Polygon(id, 4, {})
        v(k, isInternal) == Vertex(q[k].x, q[k].y, isInternal)
    IN  <<Part(visible, opacity, 0, <<v(1, FALSE), v(2, FALSE), v(3, TRUE)>>),
          Part(TRUE, 100, 0, <<v(1, TRUE), v(3, FALSE), v(4, FALSE)>>)>>

SingleBody(id, isStatic, isSleeping, visible, opacity) ==
    Body(id, isStatic, isSleeping, Part(visible, opacity, 0, Polygon(id, 4, {})), <<>>)

CompoundBody(id, isStatic, isSleeping, visible, opacity) ==
    Body(id, isStatic, isSleeping, Part(visible, opacity, 0, Polygon(id, 4, {})),
         Halves(id, TRUE, 100))

\* The bodies handed to renderBodies.
WorldBodies(id) ==
    {SingleBody(id, st, sl, vis, op) :
        st \in BOOLEAN, sl \in BOOLEAN, vis \in BOOLEAN, op \in Opacities}
    \cup {CompoundBody(id, st, sl, vis, op) :
            st \in BOOLEAN, sl \in BOOLEAN, vis \in BOOLEAN, op \in Opacities}

BodyLists ==
    {<<>>}
    \cup {<<b>> : b \in WorldBodies(1)}
    \cup {<<CompoundBody(1, TRUE, TRUE, TRUE, 50), b>> :
            b \in {SingleBody(2, FALSE, TRUE, TRUE, 100),
                   SingleBody(2, FALSE, FALSE, FALSE, 100)}}

\* The bodies handed to renderBody and renderConvexHull directly.
ShapeBodies ==
    {Body(1, FALSE, FALSE, Part(vis, op, 0, Polygon(1, n, internal)), <<>>) :
        vis \in {TRUE}, op \in {0, 100}, n \in 1..MaxVerts,
        internal \in SUBSET (0..(MaxVerts - 1))}
    \cup {Body(2, FALSE, FALSE, Part(vis, 100, 5, Polygon(2, 1, {})), <<>>) :
            vis \in BOOLEAN}
    \cup {Body(3, FALSE, FALSE, Part(TRUE, op, 0, Polygon(3, 4, {})),
               Halves(3, vis, 50)) : vis \in BOOLEAN, op \in {0, 100}}

Colors == {None, Some(255)}
OpacityArgs == {None, Some(0), Some(50)}
ThicknessArgs == {None, Some(3)}

Point(x, y) == [x |-> x, y |-> y]

Constraint(id, type, length, anchors, custom, visible, pointA, pointB, bodyA, bodyB) ==
    [id |-> id, length |-> length, pointA |-> pointA, pointB |-> pointB,
     bodyA |-> bodyA, bodyB |-> bodyB,
     render |-> [visible |-> visible, type |-> type, custom |-> custom,
                 lineWidth |-> 3, strokeStyle |-> "#ff0000", anchors |-> anchors]]

ConstraintTypes == {"line", "spring", "pin"}
Anchored == {None, Some(SingleBody(1, FALSE, FALSE, TRUE, 100))}

\* The constraints handed to renderConstraint: springs of every length, and
\* constraints of every type with and without bodies and endpoint offsets.
Constraints ==
    {Constraint(1, "spring", length, anchors, custom, TRUE, Some(Point(0, 0)),
                Some(Point(60, 0)), None, None) :
        length \in 0..MaxLength, anchors \in BOOLEAN, custom \in BOOLEAN}
    \cup {Constraint(2, type, 50, anchors, custom, TRUE, Some(Point(1, 2)),
                     Some(Point(3, 4)), bodyA, bodyB) :
            type \in ConstraintTypes, anchors \in BOOLEAN, custom \in BOOLEAN,
            bodyA \in Anchored, bodyB \in Anchored}
    \cup {Constraint(3, type, 50, TRUE, FALSE, visible, pointA, pointB, None, None) :
            type \in ConstraintTypes, visible \in BOOLEAN,
            pointA \in {None, Some(Point(1, 2))},
            pointB \in {None, Some(Point(3, 4))}}

AnchorSizes == {0, 6}

\* What the host hands to renderBody and renderConvexHull, or to
\* renderConstraint.
Inputs ==
    [kind : {"body"}, body : ShapeBodies, showInternalEdges : BOOLEAN,
     lineColor : Colors, fillColor : Colors, opacity : OpacityArgs,
     lineThickness : ThicknessArgs]
    \cup [kind : {"constraint"}, constraint : Constraints, anchorSize : AnchorSizes]

\* What the host added to the world before the frame is rendered.
Contents ==
    {[bodies |-> all, constraints |-> <<>>] : all \in BodyLists}
    \cup
    {[bodies |-> <<SingleBody(1, FALSE, FALSE, TRUE, 100)>>,
      constraints |-> <<Constraint(1, "line", 50, TRUE, FALSE, TRUE,
                                   Some(Point(1, 2)), Some(Point(3, 4)), None, None)>>],
     [bodies |-> <<CompoundBody(1, TRUE, TRUE, TRUE, 100),
                   SingleBody(2, FALSE, TRUE, FALSE, 100)>>,
      constraints |-> <<Constraint(1, "spring", 70, FALSE, FALSE, TRUE,
                                   Some(Point(0, 0)), Some(Point(60, 0)), None, None),
                        Constraint(2, "pin", 50, FALSE, TRUE, TRUE,
                                   Some(Point(1, 2)), Some(Point(3, 4)), None, None)>>]}

\* Debug configurations: missing, the legacy boolean, and objects of overrides.
Overrides ==
    [showBody : {None, Some(FALSE)},
     showStaticBody : {None, Some(FALSE)},
     showJoint : {None, Some(FALSE)},
     showSleeping : {None, Some(TRUE)},
     showConvexHulls : {None, Some(TRUE)},
     renderFill : {None, Some(FALSE)},
     renderStroke : {None, Some(FALSE)},
     staticBodySleepOpacity : {None, Some(0), Some(50)}]

DebugConfigs ==
    {[DefaultConfig EXCEPT !.debug = d] :
        d \in {None, Some([form |-> "boolean", value |-> TRUE])}
              \cup {Some([form |-> "object", value |-> o]) : o \in Overrides}}

(***************************************************************************)
(* State after construction.                                               *)
(***************************************************************************)
D == [enabled |-> enabled, autoUpdate |-> autoUpdate, correction |-> correction,
      getDelta |-> getDelta]

W == [walls |-> walls, bodies |-> bodies, nextBodyId |-> nextBodyId,
      lastInclude |-> lastInclude]

Ids == [colliding |-> nextCollidingGroupId, nonColliding |-> nextNonCollidingGroupId,
        category |-> nextCategoryId]

Snapshot == [world |-> D, walls |-> walls, lastInclude |-> lastInclude, ids |-> Ids]

Observed(op, args, calls, raised, emitted) ==
    [op |-> op, args |-> args, pre |-> Snapshot, calls |-> calls,
     raised |-> raised, emitted |-> emitted,
     delivered |-> emitAll(listeners, emitted)]

\* The state of a new World whose host then added `content` to the world
\* and holds `given` for the renderer.
InitGiven(config, content, given) ==
    LET n == World(config)
    IN  /\ drawDebug = n.drawDebug
        /\ debugConfig = n.debugConfig
        /\ localWorld = content
        /\ input = given
        /\ drawn = <<>>
        /\ thrown = None
        /\ enabled = n.enabled
        /\ autoUpdate = n.autoUpdate
        /\ correction = n.correction
        /\ getDelta = n.getDelta
        /\ walls = n.walls
        /\ bodies = n.bodies
        /\ nextBodyId = n.nextBodyId
        /\ lastInclude = n.lastInclude
        /\ engineEvents = n.engineEvents
        /\ listeners = <<>>
        /\ nextListenerId = 1
        /\ retired = {}
        /\ paused = FALSE
        /\ nextCollidingGroupId = InitialIds.colliding
        /\ nextNonCollidingGroupId = InitialIds.nonColliding
        /\ nextCategoryId = InitialIds.category
        /\ issued = <<>>
        /\ call = [op |-> "new", args |-> <<config>>,
                   pre |-> [world |-> [enabled |-> n.enabled,
                                       autoUpdate |-> n.autoUpdate,
                                       correction |-> n.correction,
                                       getDelta |-> n.getDelta],
                            walls |-> n.walls, lastInclude |-> n.lastInclude,
                            ids |-> InitialIds],
                   calls |-> NoCalls, raised |-> <<>>, emitted |-> <<>>,
                   delivered |-> <<>>]

InitIn(config, content) == InitGiven(config, content, NoInput)
InitWith(config) == InitIn(config, NoContent)

Init == \E config \in Configs : InitWith(config)
InitLife ==
    InitWith([DefaultConfig EXCEPT
                 !.setBounds = Some([form |-> "boolean", value |-> TRUE])])
InitBounds == \E config \in BoundsOnlyConfigs : InitWith(config)
InitAlloc == InitWith(DefaultConfig)
InitDebug == \E config \in DebugConfigs, content \in Contents : InitIn(config, content)
InitDraw ==
    \E given \in Inputs :
        InitGiven([DefaultConfig EXCEPT
                      !.debug = Some([form |-> "object",
                                      value |-> [o \in {} |-> None]])],
                  NoContent, given)

(***************************************************************************)
(* Operations.                                                             *)
(***************************************************************************)
\* The engine steps made by an operation: what they raise and what the
\* bridge emits for it.
RaisedBy(calls, run) == Flatten([i \in 1..Len(calls.engine) |-> run])
EmittedBy(calls, run) ==
    Flatten([i \in 1..Len(calls.engine) |-> Engine_update(engineEvents, run)])

Update ==
    \E time \in Times, delta \in Deltas, run \in EngineRuns :
        LET calls == update(D, time, delta)
        IN  /\ call' = Observed("update", <<time, delta>>, calls,
                                RaisedBy(calls, run), EmittedBy(calls, run))
            /\ UNCHANGED <<debugVars, worldVars, wallVars, busVars, idVars, paused>>

Step ==
    \E a \in StepArgs, run \in EngineRuns :
        LET calls == step(D, a[1], a[2])
        IN  /\ call' = Observed("step", a, calls,
                                RaisedBy(calls, run), EmittedBy(calls, run))
            /\ UNCHANGED <<debugVars, worldVars, wallVars, busVars, idVars, paused>>

Pause ==
    LET r == pause(D)
    IN  /\ enabled' = r.world.enabled
        /\ autoUpdate' = r.world.autoUpdate
        /\ correction' = r.world.correction
        /\ getDelta' = r.world.getDelta
        /\ paused' = TRUE
        /\ call' = Observed("pause", <<>>, NoCalls, <<>>, r.emits)
        /\ UNCHANGED <<debugVars, wallVars, busVars, idVars>>

Resume ==
    LET r == resume(D)
    IN  /\ enabled' = r.world.enabled
        /\ autoUpdate' = r.world.autoUpdate
        /\ correction' = r.world.correction
        /\ getDelta' = r.world.getDelta
        /\ paused' = FALSE
        /\ call' = Observed("resume", <<>>, NoCalls, <<>>, r.emits)
        /\ UNCHANGED <<debugVars, wallVars, busVars, idVars>>

\* EventEmitter#on: the host registers a listener on the World.
On ==
    \E kind \in ListenKinds :
        /\ nextListenerId <= MaxListeners
        /\ listeners' = Append(listeners, [id |-> nextListenerId, kind |-> kind])
        /\ nextListenerId' = nextListenerId + 1
        /\ call' = Observed("on", <<kind>>, NoCalls, <<>>, <<>>)
        /\ UNCHANGED <<debugVars, worldVars, wallVars, engineEvents, retired, idVars, paused>>

Ended(op, s) ==
    /\ engineEvents' = s.engineEvents
    /\ listeners' = s.listeners
    /\ bodies' = s.bodies
    /\ retired' = retired \cup {listeners[i].id : i \in 1..Len(listeners)}
    /\ call' = Observed(op, <<>>, NoCalls, <<>>, <<>>)
    /\ UNCHANGED <<debugVars, worldVars, walls, nextBodyId, lastInclude, nextListenerId,
                   idVars, paused>>

Shutdown ==
    Ended("shutdown", shutdown([engineEvents |-> engineEvents,
                                listeners |-> listeners, bodies |-> bodies]))

Destroy ==
    Ended("destroy", destroy([engineEvents |-> engineEvents,
                              listeners |-> listeners, bodies |-> bodies]))

Walled(op, args, w) ==
    /\ walls' = w.walls
    /\ bodies' = w.bodies
    /\ nextBodyId' = w.nextBodyId
    /\ lastInclude' = w.lastInclude
    /\ call' = Observed(op, args, NoCalls, <<>>, <<>>)
    /\ UNCHANGED <<debugVars, worldVars, busVars, idVars, paused>>

SetBounds ==
    \E a \in BoundsArgs :
        /\ nextBodyId + 3 <= MaxBodyId
        /\ Walled("setBounds", a, setBoundsWith(W, a))

UpdateWall ==
    \E add \in BOOLEAN, side \in Sides :
        /\ nextBodyId + 3 <= MaxBodyId
        /\ Walled("updateWall", <<add, side>>,
                  updateWall(W, add, side, 0, 0, 32, 32))

Issued(op, world, arg, r) ==
    /\ Len(issued) < MaxIssued
    /\ nextCollidingGroupId' = r.ids.colliding
    /\ nextNonCollidingGroupId' = r.ids.nonColliding
    /\ nextCategoryId' = r.ids.category
    /\ issued' = Append(issued, [op |-> op, world |-> world, arg |-> arg,
                                 ret |-> r.ret])
    /\ call' = Observed(op, <<world, arg>>, NoCalls, <<>>, <<>>)
    /\ UNCHANGED <<debugVars, worldVars, wallVars, busVars, paused>>

NextGroup ==
    \E world \in Worlds, isNonColliding \in {None, Some(FALSE), Some(TRUE)} :
        Issued("nextGroup", world, isNonColliding, nextGroup(Ids, isNonColliding))

NextCategory ==
    \E world \in Worlds : Issued("nextCategory", world, None, nextCategory(Ids))

ResetCollisionIDs ==
    \E world \in Worlds :
        LET ids == resetCollisionIDs(Ids)
        IN  /\ nextCollidingGroupId' = ids.colliding
            /\ nextNonCollidingGroupId' = ids.nonColliding
            /\ nextCategoryId' = ids.category
            /\ issued' = <<>>
            /\ call' = Observed("resetCollisionIDs", <<world, None>>, NoCalls,
                                <<>>, <<>>)
            /\ UNCHANGED <<debugVars, worldVars, wallVars, busVars, paused>>

\* A rendering operation: it only draws.
Rendered(op, args, r) ==
    /\ drawn' = r.ops
    /\ thrown' = r.thrown
    /\ call' = Observed(op, args, NoCalls, <<>>, <<>>)
    /\ UNCHANGED <<worldVars, wallVars, busVars, idVars, paused, drawDebug,
                   debugConfig, localWorld, input>>

Returned(ops) == [ops |-> ops, thrown |-> None]

PostUpdate ==
    Rendered("postUpdate", <<>>, postUpdate(drawDebug, debugConfig, localWorld))

\* renderBodies and renderJoints on the content of the world.
RenderBodies ==
    Rendered("renderBodies", <<localWorld.bodies>>,
             Returned(renderBodies(localWorld.bodies, debugConfig)))

RenderJoints ==
    Rendered("renderJoints", <<>>, renderJoints(localWorld, debugConfig))

\* renderBody, renderConvexHull and renderConstraint called by the host.
RenderBody ==
    /\ input.kind = "body"
    /\ Rendered("renderBody",
                <<input.body, input.showInternalEdges, input.lineColor,
                  input.fillColor, input.opacity, input.lineThickness>>,
                Returned(renderBody(input.body, input.showInternalEdges,
                                    input.lineColor, input.fillColor, input.opacity,
                                    input.lineThickness)))

RenderConvexHull ==
    /\ input.kind = "body"
    /\ Rendered("renderConvexHull",
                <<input.body, debugConfig.hullColor, input.lineThickness>>,
                Returned(renderConvexHull(input.body, debugConfig.hullColor,
                                          input.lineThickness)))

RenderConstraint ==
    /\ input.kind = "constraint"
    /\ Rendered("renderConstraint", <<input.constraint, input.anchorSize>>,
                renderConstraint(input.constraint, debugConfig.jointColor,
                                 debugConfig.jointLineThickness,
                                 debugConfig.springColor, debugConfig.pinColor,
                                 debugConfig.pinSize, debugConfig.anchorColor,
                                 input.anchorSize))

(***************************************************************************)
(* Specifications.                                                         *)
(***************************************************************************)
\* The timestep driver of a World built from any configuration.
Next == Update \/ Step \/ Pause \/ Resume
Spec == Init /\ [][Next]_vars

\* The lifecycle: listeners, stepping, shutdown.
NextLife == Update \/ Step \/ Pause \/ Resume \/ On \/ Shutdown \/ Destroy
SpecLife == InitLife /\ [][NextLife]_vars

\* The world boundary.
NextBounds == SetBounds \/ UpdateWall
SpecBounds == InitBounds /\ [][NextBounds]_vars

\* The collision id allocator, used through two Worlds.
NextAlloc == NextGroup \/ NextCategory \/ ResetCollisionIDs
SpecAlloc == InitAlloc /\ [][NextAlloc]_vars

\* The debug renderer over the content of the world.
NextDebug == PostUpdate \/ RenderBodies \/ RenderJoints
SpecDebug == InitDebug /\ [][NextDebug]_vars

\* The renderer's methods called on single bodies and constraints.
NextDraw == RenderBody \/ RenderConvexHull \/ RenderConstraint
SpecDraw == InitDraw /\ [][NextDraw]_vars

(***************************************************************************)
(* Properties of the timestep driver and the event bridge (Spec).          *)
(***************************************************************************)
EngineSteps == Len(call.calls.engine)

\* C1: update(time, delta) invokes the engine step exactly once when enabled
\* and autoUpdate are both true and not at all when either is false;
\* step(delta, correction) invokes it exactly once whatever the two flags
\* are, and never calls getDelta.
C1_UpdateGatedStepNot ==
    /\ call.op = "update" =>
          EngineSteps = (IF call.pre.world.enabled /\ call.pre.world.autoUpdate
                         THEN 1 ELSE 0)
    /\ call.op = "step" => EngineSteps = 1 /\ Len(call.calls.getDelta) = 0

\* A step() made while the World is disabled and autoUpdate is off.
C1_Witness ==
    /\ call.op = "step"
    /\ ~call.pre.world.enabled
    /\ ~call.pre.world.autoUpdate
    /\ EngineSteps = 1

\* What the installed getDelta returns for update's arguments.
Installed(fn, time, delta) ==
    CASE fn = "update60Hz" -> <<1000, 60>>
      [] fn = "update30Hz" -> <<1000, 30>>
      [] OTHER -> <<delta, 1>>

\* C17: every engine step made by update(time, delta) gets as step size the
\* value the installed getDelta returns for (time, delta), 1000/60 by
\* default and 1000/30 with update30Hz, and as correction the World's
\* correction; update, step, pause and resume leave correction and getDelta
\* as they were.
C17_StepSizeAndCorrection ==
    /\ call.op = "update" =>
          /\ \A i \in 1..EngineSteps :
                /\ call.calls.engine[i].delta =
                       Some(Installed(call.pre.world.getDelta, call.args[1],
                                      call.args[2]))
                /\ call.calls.engine[i].correction = Some(call.pre.world.correction)
          /\ EngineSteps > 0 =>
                call.calls.getDelta =
                    <<[time |-> call.args[1], delta |-> call.args[2]]>>
    /\ call.op \in {"update", "step", "pause", "resume"} =>
          /\ correction = call.pre.world.correction
          /\ getDelta = call.pre.world.getDelta

\* An update that stepped the engine by 1000/30 with correction 2.
C17_Witness ==
    /\ call.op = "update"
    /\ call.pre.world.getDelta = "update30Hz"
    /\ call.pre.world.correction = 2
    /\ EngineSteps = 1
    /\ call.calls.engine[1].delta = Some(<<1000, 30>>)
    /\ call.calls.engine[1].correction = Some(2)

\* The World event the bridge owes for an engine notification.
FirstOf(pairs, field) == IF Len(pairs) > 0 THEN Some(pairs[1][field]) ELSE None
Bridged(n) ==
    CASE n.name = "beforeUpdate" -> [kind |-> "BEFORE_UPDATE", args |-> <<n>>]
      [] n.name = "afterUpdate" -> [kind |-> "AFTER_UPDATE", args |-> <<n>>]
      [] n.name = "collisionStart" ->
            [kind |-> "COLLISION_START",
             args |-> <<n, FirstOf(n.pairs, "bodyA"), FirstOf(n.pairs, "bodyB")>>]
      [] n.name = "collisionActive" ->
            [kind |-> "COLLISION_ACTIVE",
             args |-> <<n, FirstOf(n.pairs, "bodyA"), FirstOf(n.pairs, "bodyB")>>]
      [] n.name = "collisionEnd" ->
            [kind |-> "COLLISION_END",
             args |-> <<n, FirstOf(n.pairs, "bodyA"), FirstOf(n.pairs, "bodyB")>>]

EmittedFor(n) == {i \in 1..Len(call.emitted) : call.emitted[i].args[1] = n}

\* C7: for each engine notification the World emits exactly one event, of the
\* matching kind; a collision event carries (rawEvent, bodyA, bodyB) with the
\* bodies of the first pair, both undefined when the pair list is empty;
\* BEFORE_UPDATE and AFTER_UPDATE carry the raw event alone.
C7_BridgeNormalises ==
    call.op \in {"update", "step"} =>
        \A j \in 1..Len(call.raised) :
            /\ Cardinality(EmittedFor(call.raised[j])) = 1
            /\ \A i \in EmittedFor(call.raised[j]) :
                  call.emitted[i] = Bridged(call.raised[j])

\* A step that raised collisionEnd with two pairs and collisionStart with none.
C7_Witness ==
    /\ call.op = "update"
    /\ \E j \in 1..Len(call.raised) :
          call.raised[j].name = "collisionEnd" /\ Len(call.raised[j].pairs) = 2
    /\ \E j \in 1..Len(call.raised) :
          call.raised[j].name = "collisionStart" /\ Len(call.raised[j].pairs) = 0
    /\ Len(call.emitted) = 4

\* C8: the World events of a step are emitted inside the update()/step() call
\* that made the step, in the order the engine raised the notifications, one
\* per notification: when the call returns the raw events emitted are exactly
\* the notifications raised, none pending and none twice.
C8_SynchronousInOrder ==
    call.op \in {"update", "step"} =>
        [i \in 1..Len(call.emitted) |-> call.emitted[i].args[1]] = call.raised

\* A step that raised all five notifications.
C8_Witness ==
    /\ call.op = "step"
    /\ Len(call.raised) = 5
    /\ Len(call.emitted) = 5

\* C10: pause() sets enabled to false and emits exactly one PAUSE; resume()
\* sets it to true and emits exactly one RESUME; neither changes autoUpdate,
\* correction, getDelta or the walls.  Between a pause() and the next resume()
\* no update() invokes the engine step, and every step() does.
C10_PauseResume ==
    /\ call.op = "pause" =>
          ~enabled /\ call.emitted = <<[kind |-> "PAUSE", args |-> <<>>]>>
    /\ call.op = "resume" =>
          enabled /\ call.emitted = <<[kind |-> "RESUME", args |-> <<>>]>>
    /\ call.op \in {"pause", "resume"} =>
          /\ autoUpdate = call.pre.world.autoUpdate
          /\ correction = call.pre.world.correction
          /\ getDelta = call.pre.world.getDelta
          /\ walls = call.pre.walls
    /\ paused /\ call.op = "update" => EngineSteps = 0
    /\ paused /\ call.op = "step" => EngineSteps = 1

\* An update() between a pause() and a resume(), autoUpdate being on.
C10_Witness ==
    /\ paused
    /\ call.op = "update"
    /\ autoUpdate
    /\ EngineSteps = 0
    /\ \E s \in Sides : walls[s] # NullBody

(***************************************************************************)
(* Properties of the lifecycle (SpecLife).                                 *)
(***************************************************************************)
\* C9: shutdown() and destroy() remove the five bridge subscriptions from the
\* engine and detach every listener of the World's own emitter, and no
\* listener registered before them is called again, whatever the engine
\* raises and whether pause() or resume() runs afterwards.
C9_ShutdownDetaches ==
    /\ call.op \in {"shutdown", "destroy"} =>
          /\ \A n \in Notifications : engineEvents[n] = <<>>
          /\ listeners = <<>>
    /\ \A i \in 1..Len(listeners) : listeners[i].id \notin retired
    /\ \A i \in 1..Len(call.delivered) : call.delivered[i].listener \notin retired

\* A step after a shutdown that detached a listener: the engine raises its
\* notifications and nothing is emitted.
C9_Witness ==
    /\ call.op = "step"
    /\ retired # {}
    /\ Len(call.raised) = 5
    /\ call.emitted = <<>>

(***************************************************************************)
(* Properties of the world boundary (SpecBounds).                          *)
(***************************************************************************)
Included(side) == IsSet(lastInclude[side]) /\ Val(lastInclude[side])
BodyIds == {bodies[i].id : i \in 1..Len(bodies)}
Truthy(o) == IsSet(o) /\ Val(o)

\* C2: walls[side] is non-null if and only if the most recent updateWall for
\* that side was given include = true; before any updateWall for a side its
\* slot is null.
C2_SlotIffIncluded ==
    \A side \in Sides : (walls[side] # NullBody) <=> Included(side)

\* A setBounds call that excluded a side that had a wall and kept another.
C2_Witness ==
    /\ call.op = "setBounds"
    /\ call.pre.walls["left"] # NullBody
    /\ walls["left"] = NullBody
    /\ walls["right"] # NullBody
    /\ lastInclude["left"] = Some(FALSE)

\* C3: from a World with no walls, setBounds(0, 0, 800, 600) with the default
\* thickness and all four sides included leaves exactly 4 bodies in the world,
\* each static with friction 0 and static friction 0; a setBounds call that
\* follows with left = false and the other sides included takes the left wall
\* out of the world and clears walls.left, and right, top and bottom are still
\* in their slots and in the world.
C3_FourWallsThenDropLeft ==
    /\ ( /\ call.op = "setBounds"
         /\ \A side \in Sides : call.pre.walls[side] = NullBody
         /\ call.args.x = Some(0) /\ call.args.y = Some(0)
         /\ call.args.width = Some(800) /\ call.args.height = Some(600)
         /\ call.args.thickness = None
         /\ \A f \in {"left", "right", "top", "bottom"} :
               ~IsSet(call.args[f]) \/ Truthy(call.args[f]) )
       => /\ Len(bodies) = 4
          /\ \A i \in 1..Len(bodies) :
                /\ bodies[i].isStatic
                /\ bodies[i].friction = 0
                /\ bodies[i].frictionStatic = 0
    /\ ( /\ call.op = "setBounds"
         /\ \A side \in Sides : call.pre.walls[side] # NullBody
         /\ call.args.left = Some(FALSE)
         /\ \A f \in {"right", "top", "bottom"} :
               ~IsSet(call.args[f]) \/ Truthy(call.args[f]) )
       => /\ walls["left"] = NullBody
          /\ call.pre.walls["left"] \notin BodyIds
          /\ \A side \in {"right", "top", "bottom"} :
                walls[side] # NullBody /\ walls[side] \in BodyIds
          /\ Len(bodies) = 3

\* The second call of the sequence: four walls stood, left = false was passed.
C3_Witness ==
    /\ call.op = "setBounds"
    /\ \A side \in Sides : call.pre.walls[side] # NullBody
    /\ call.args.left = Some(FALSE)
    /\ call.args.right = Some(TRUE)
    /\ call.args.top = Some(TRUE)
    /\ call.args.bottom = Some(TRUE)
    /\ call.args.width = Some(800)
    /\ Len(bodies) = 3

WallIds == {walls[side] : side \in Sides} \ {NullBody}
EarlierWalls == {call.pre.walls[side] : side \in Sides} \ {NullBody}

\* C20: walls are rebuilt on every call.  A setBounds call takes every body
\* stored before it out of the world and stores, for each side it includes,
\* a body that was in no slot before.  At all times the bodies of the world
\* are exactly the bodies in the slots, one per included side, so no wall of
\* an earlier call remains.
C20_WallsRebuilt ==
    /\ BodyIds = WallIds
    /\ Len(bodies) = Cardinality(WallIds)
    /\ \A s, t \in Sides : s # t /\ walls[s] # NullBody => walls[s] # walls[t]
    /\ call.op = "setBounds" =>
          /\ EarlierWalls \cap BodyIds = {}
          /\ WallIds \cap EarlierWalls = {}

\* A setBounds call that replaced the four walls of the call before it.
C20_Witness ==
    /\ call.op = "setBounds"
    /\ Cardinality(EarlierWalls) = 4
    /\ Cardinality(WallIds) = 4
    /\ BodyIds = WallIds
    /\ WallIds \cap EarlierWalls = {}

\* The World was just constructed with an object as config.setBounds.
BuiltWithBounds ==
    /\ call.op = "new"
    /\ IsSet(call.args[1].setBounds)
    /\ Val(call.args[1].setBounds).form = "object"

WallBody(side) == CHOOSE b \in {bodies[i] : i \in 1..Len(bodies)} : b.id = walls[side]

\* C21: construction sets the boundary up with setBounds' own defaults.  A
\* World built with an object-form config.setBounds has the walls a
\* setBounds call with the same arguments, the missing ones omitted, makes
\* from no walls; with the thickness missing the walls are 128 thick, and
\* with every field missing they are the walls of `setBounds: true`.
C21_ConstructorDefaults ==
    BuiltWithBounds =>
        LET boundsConfig == Val(call.args[1].setBounds).value
        IN  /\ W = setBoundsWith(NoWalls, boundsConfig)
            /\ ~IsSet(boundsConfig.thickness) =>
                  \A side \in {"left", "right"} :
                      walls[side] # NullBody => WallBody(side).width = 128
            /\ boundsConfig = NoBoundsConfig =>
                  W = World_bounds([DefaultConfig EXCEPT
                          !.setBounds = Some([form |-> "boolean", value |-> TRUE])])

FlagsOmitted ==
    \A f \in {"left", "right", "top", "bottom"} : ~IsSet(call.args[f])

\* C4: a setBounds call that omits the four side flags keeps each side's
\* previous inclusion: a side excluded by an earlier call is still excluded,
\* its slot still null, after the call.
C4_OmittedFlagsKeepExclusion ==
    (call.op = "setBounds" /\ FlagsOmitted) =>
        \A side \in Sides :
            (IsSet(call.pre.lastInclude[side]) /\ ~Val(call.pre.lastInclude[side]))
                => walls[side] = NullBody

(***************************************************************************)
(* Properties of the collision id allocator (SpecAlloc).                   *)
(***************************************************************************)
RECURSIVE Pow2(_)
Pow2(n) == IF n = 0 THEN 1 ELSE 2 * Pow2(n - 1)

\* The series an entry of `issued` belongs to.
Series(e) ==
    IF e.op = "nextCategory" THEN "category"
    ELSE IF Truthy(e.arg) THEN "nonColliding" ELSE "colliding"

\* How many of the first i entries belong to the series.
Rank(series, i) == Cardinality({j \in 1..i : Series(issued[j]) = series})

\* C5: counting from the initial state or the last resetCollisionIDs(), in any
\* interleaving, the k-th nextGroup(false) returns k, the k-th nextGroup(true)
\* returns -k and the k-th nextCategory() returns 2^(k-1); a call to one
\* leaves what the other two return next as it was, and after a reset the
\* next calls return 1, -1 and 1.
C5_Sequences ==
    /\ \A i \in 1..Len(issued) :
          LET k == Rank(Series(issued[i]), i)
          IN  issued[i].ret = CASE Series(issued[i]) = "colliding" -> k
                                [] Series(issued[i]) = "nonColliding" -> -k
                                [] Series(issued[i]) = "category" -> Pow2(k - 1)
    /\ nextCollidingGroupId = Rank("colliding", Len(issued)) + 1
    /\ nextNonCollidingGroupId = -(Rank("nonColliding", Len(issued)) + 1)
    /\ nextCategoryId = Pow2(Rank("category", Len(issued)))

\* A reset after ids of all three series were handed out.
C5_Witness ==
    /\ call.op = "resetCollisionIDs"
    /\ call.pre.ids.colliding = 3
    /\ call.pre.ids.nonColliding = -2
    /\ call.pre.ids.category = 4
    /\ nextCollidingGroupId = 1
    /\ nextNonCollidingGroupId = -1
    /\ nextCategoryId = 1

GroupEntries == {i \in 1..Len(issued) : issued[i].op = "nextGroup"}
CategoryEntries == {i \in 1..Len(issued) : issued[i].op = "nextCategory"}

\* C6: with no reset in between, whichever Worlds the calls go through, the
\* group ids returned are pairwise distinct, positive for colliding groups
\* and negative for non-colliding ones, and the categories returned are
\* pairwise distinct single-bit masks.
C6_SharedIdsUnique ==
    /\ \A i \in GroupEntries, j \in GroupEntries :
          i # j => issued[i].ret # issued[j].ret
    /\ \A i \in GroupEntries :
          IF Truthy(issued[i].arg) THEN issued[i].ret < 0 ELSE issued[i].ret > 0
    /\ \A i \in CategoryEntries, j \in CategoryEntries :
          i # j => issued[i].ret # issued[j].ret
    /\ \A i \in CategoryEntries : \E b \in 0..30 : issued[i].ret = Pow2(b)

\* Both Worlds drew from the same series: two colliding groups, two
\* non-colliding groups and a category, through worldA and worldB in turn.
C6_Witness ==
    /\ Len(issued) = 5
    /\ \E i \in GroupEntries, j \in GroupEntries :
          /\ issued[i].world # issued[j].world
          /\ Truthy(issued[i].arg) /\ Truthy(issued[j].arg)
    /\ \E i \in GroupEntries, j \in GroupEntries :
          /\ issued[i].world # issued[j].world
          /\ ~Truthy(issued[i].arg) /\ ~Truthy(issued[j].arg)
    /\ CategoryEntries # {}

(***************************************************************************)
(* Properties of the debug renderer over the world (SpecDebug).            *)
(***************************************************************************)
ByBody(g) == g.by \in {"renderBody", "renderConvexHull"}
ByConstraint(g) == g.by = "renderConstraint"

\* C11: postUpdate makes no call on the Graphics object, not even clear, when
\* drawDebug is false or showBody, showStaticBody and showJoint are all
\* false; otherwise its first call is the only clear, every call that draws
\* a body comes before every call that draws a constraint, all the bodies'
\* calls are made, and constraints are drawn only when showJoint is true.
C11_PostUpdateOrder ==
    call.op = "postUpdate" =>
        IF ~drawDebug \/ (~debugConfig.showBody /\ ~debugConfig.showStaticBody
                          /\ ~debugConfig.showJoint)
        THEN drawn = <<>>
        ELSE /\ Len(drawn) >= 1
             /\ drawn[1].op = "clear"
             /\ \A i \in 2..Len(drawn) :
                    /\ drawn[i].op # "clear"
                    /\ ByBody(drawn[i]) \/ ByConstraint(drawn[i])
             /\ \A i, j \in 1..Len(drawn) :
                    ByBody(drawn[i]) /\ ByConstraint(drawn[j]) => i < j
             /\ SelectSeq(drawn, ByBody) = renderBodies(localWorld.bodies, debugConfig)
             /\ (\E i \in 1..Len(drawn) : ByConstraint(drawn[i]))
                    => debugConfig.showJoint

\* A frame in which postUpdate cleared, drew a body and then a constraint.
C11_Witness ==
    /\ call.op = "postUpdate"
    /\ drawDebug
    /\ drawn # <<>>
    /\ drawn[1].op = "clear"
    /\ \E i, j \in 1..Len(drawn) :
          i < j /\ ByBody(drawn[i]) /\ ByConstraint(drawn[j])

\* The calls made for the body with the given id.
DrawnFor(id) == SelectSeq(drawn, LAMBDA g : ByBody(g) /\ g.id = id)

BodyRendering == call.op \in {"renderBodies", "postUpdate"}

\* C12: the debug renderer makes no call (path, fill, stroke or hull) for a
\* body whose render.visible is false, for a static body when showStaticBody
\* is false, or for a dynamic body when showBody is false.
C12_HiddenBodiesNotDrawn ==
    BodyRendering =>
        \A i \in 1..Len(localWorld.bodies) :
            LET body == localWorld.bodies[i]
            IN  \/ ~body.render.visible
                \/ body.isStatic /\ ~debugConfig.showStaticBody
                \/ ~body.isStatic /\ ~debugConfig.showBody
                => DrawnFor(body.id) = <<>>

\* renderBodies drew one body of the world and left out another, whose
\* render.visible is false.
C12_Witness ==
    /\ call.op = "renderBodies"
    /\ \E i, j \in 1..Len(localWorld.bodies) :
          /\ ~localWorld.bodies[i].render.visible
          /\ DrawnFor(localWorld.bodies[i].id) = <<>>
          /\ DrawnFor(localWorld.bodies[j].id) # <<>>

\* The style calls renderBody made for the body with the given id.
Styles(id, op) == SelectSeq(DrawnFor(id), LAMBDA g : g.by = "renderBody" /\ g.op = op)

\* The body is drawn with the given colors at the given opacity: every fill
\* and stroke style set for it carries them, and there is one unless it is
\* suppressed or the opacity is 0.
DrawnWith(body, stroke, fill, opacity) ==
    LET fills == Styles(body.id, "fillStyle")
        strokes == Styles(body.id, "lineStyle")
    IN  /\ \A i \in 1..Len(fills) : fills[i].a = <<fill, opacity>>
        /\ \A i \in 1..Len(strokes) :
              strokes[i].a = <<debugConfig.lineThickness, stroke, opacity>>
        /\ (fills = <<>>) = (~debugConfig.renderFill \/ opacity = 0)
        /\ (strokes = <<>>) = (~debugConfig.renderStroke \/ opacity = 0)
        /\ ~debugConfig.renderFill => Styles(body.id, "fillPath") = <<>>
        /\ ~debugConfig.renderStroke => Styles(body.id, "strokePath") = <<>>

Processed(body) ==
    /\ body.render.visible
    /\ IF body.isStatic THEN debugConfig.showStaticBody ELSE debugConfig.showBody

\* C13: with showSleeping, a processed dynamic sleeping body is drawn in the
\* sleep colors at its own opacity; a static sleeping body in the static
\* colors at its opacity times staticBodySleepOpacity, whatever that factor
\* is; a static body that is awake in the static colors at its own opacity.
\* Fill and stroke are suppressed when renderFill / renderStroke are false.
C13_SleepStyles ==
    BodyRendering /\ debugConfig.showSleeping =>
        \A i \in 1..Len(localWorld.bodies) :
            LET body == localWorld.bodies[i]
                own == body.render.opacity
                dimmed == (own * debugConfig.staticBodySleepOpacity) \div 100
            IN  Processed(body) =>
                    /\ ~body.isStatic /\ body.isSleeping =>
                          DrawnWith(body, debugConfig.sleepStrokeColor,
                                    debugConfig.sleepFillColor, own)
                    /\ body.isStatic /\ body.isSleeping =>
                          DrawnWith(body, debugConfig.staticStrokeColor,
                                    debugConfig.staticFillColor, dimmed)
                    /\ body.isStatic /\ ~body.isSleeping =>
                          DrawnWith(body, debugConfig.staticStrokeColor,
                                    debugConfig.staticFillColor, own)

\* The calls renderConvexHull made for the body with the given id.
HullFor(id) == SelectSeq(drawn, LAMBDA g : g.by = "renderConvexHull" /\ g.id = id)

\* A closed outline through the vertices, stroked in hullColor: the line
\* style, a path from vertex 0 through every vertex and back to vertex 0,
\* and the stroke.
IsHullOutline(hull, body) ==
    LET n == Len(body.vertices)
        xy(k) == <<body.vertices[k].x, body.vertices[k].y>>
    IN  /\ Len(hull) = n + 4
        /\ hull[1].op = "lineStyle"
        /\ hull[1].a = <<debugConfig.lineThickness, debugConfig.hullColor>>
        /\ hull[2].op = "beginPath"
        /\ hull[3].op = "moveTo" /\ hull[3].a = xy(1)
        /\ \A k \in 2..n : hull[k + 2].op = "lineTo" /\ hull[k + 2].a = xy(k)
        /\ hull[n + 3].op = "lineTo" /\ hull[n + 3].a = xy(1)
        /\ hull[n + 4].op = "strokePath"

\* C14: for a body renderBodies processes, a hull outline is drawn exactly
\* when showConvexHulls is true and the body has more than one part (never
\* for a single part); it is the closed polygon through the body's own
\* vertices in hullColor, whatever the fill, stroke and opacity of the parts.
C14_HullIffCompound ==
    BodyRendering =>
        \A i \in 1..Len(localWorld.bodies) :
            LET body == localWorld.bodies[i]
                hull == HullFor(body.id)
            IN  Processed(body) =>
                    /\ (hull # <<>>) =
                           (debugConfig.showConvexHulls /\ Len(body.parts) > 1)
                    /\ hull # <<>> => IsHullOutline(hull, body)

\* renderBodies drew the hull of a compound body whose parts it did not fill.
C14_Witness ==
    /\ call.op = "renderBodies"
    /\ ~debugConfig.renderFill
    /\ \E i \in 1..Len(localWorld.bodies) :
          /\ Len(localWorld.bodies[i].parts) > 1
          /\ HullFor(localWorld.bodies[i].id) # <<>>

(***************************************************************************)
(* Properties of renderBody, renderConvexHull and renderConstraint         *)
(* (SpecDraw).                                                             *)
(***************************************************************************)
\* The parts renderBody goes through (line 934), and those that are visible.
PartsOf(body) ==
    IF Len(body.parts) > 1 THEN Tail(body.parts) ELSE body.parts
VisibleParts(body) == SelectSeq(PartsOf(body), LAMBDA part : part.render.visible)

\* The k-th path of the last operation: the calls from its k-th beginPath up
\* to the next one.
PathStarts == {i \in 1..Len(drawn) : drawn[i].op = "beginPath"}
PathStart(k) ==
    CHOOSE i \in PathStarts : Cardinality({h \in PathStarts : h < i}) = k - 1
PathOf(k) ==
    LET later == {h \in PathStarts : h > PathStart(k)}
    IN  SubSeq(drawn, PathStart(k),
               IF later = {} THEN Len(drawn)
               ELSE (CHOOSE h \in later : \A g \in later : h <= g) - 1)

\* renderBody drew every visible part of a body made of polygons.
PolygonsDrawn ==
    /\ call.op = "renderBody"
    /\ \A k \in 1..Len(input.body.parts) : input.body.parts[k].circleRadius = 0
    /\ VisibleParts(input.body) # <<>>
    /\ Cardinality(PathStarts) = Len(VisibleParts(input.body))

\* The edge from source vertex i to the next vertex (modulo the length).
Edge(vertices, i) ==
    LET from == vertices[i + 1]
        to == vertices[((i + 1) % Len(vertices)) + 1]
    IN  <<(<<from.x, from.y>>), (<<to.x, to.y>>)>>

\* C15: for a polygon part of n >= 2 vertices and every vertex i flagged
\* internal, the path holds no line segment from vertex i to vertex i + 1
\* (modulo n, so the closing edge too) when showInternalEdges is false, and
\* holds that segment when showInternalEdges is true.
C15_InternalEdges ==
    PolygonsDrawn =>
        \A k \in 1..Len(VisibleParts(input.body)) :
            LET vertices == VisibleParts(input.body)[k].vertices
            IN  \A i \in 0..(Len(vertices) - 1) :
                    Len(vertices) >= 2 /\ vertices[i + 1].isInternal =>
                        (Edge(vertices, i) \in Segments(PathOf(k)))
                            = input.showInternalEdges

\* renderBody drew a quadrilateral whose last vertex is internal with
\* showInternalEdges false: the sides are there, the closing edge is not.
C15_Witness ==
    /\ PolygonsDrawn
    /\ ~input.showInternalEdges
    /\ LET vertices == input.body.parts[1].vertices
       IN  /\ Len(input.body.parts) = 1
           /\ Len(vertices) = 4
           /\ vertices[4].isInternal
           /\ Edge(vertices, 3) \notin Segments(PathOf(1))
           /\ Edge(vertices, 0) \in Segments(PathOf(1))

\* renderConstraint drew a spring.
SpringDrawn ==
    /\ call.op = "renderConstraint"
    /\ input.constraint.render.type = "spring"
    /\ drawn # <<>>

LinesTo == SelectSeq(drawn, LAMBDA g : g.op = "lineTo")

\* ceil(clamp(L / 5, 12, 20)) for an integer L >= 0.
CoilCount(L) == IF L <= 60 THEN 12 ELSE IF L >= 100 THEN 20 ELSE (L + 4) \div 5

\* C16: a spring of length L is drawn with ceil(clamp(L / 5, 12, 20)) coils,
\* a number in 12..20 (12 for L = 0 and L = 50, 14 for L = 70, 20 from
\* L = 100 on), as exactly that many lines after the move to the start:
\* coils - 1 zig-zag points whose perpendicular offset changes sign from
\* one to the next, then one line to the end point.
C16_SpringCoils ==
    SpringDrawn =>
        LET L == input.constraint.length
            n == CoilCount(L)
            offset == Val(input.constraint.pointB)
            end == IF IsSet(input.constraint.bodyB)
                   THEN [x |-> Val(input.constraint.bodyB).position.x + offset.x,
                         y |-> Val(input.constraint.bodyB).position.y + offset.y]
                   ELSE offset
        IN  /\ n \in 12..20
            /\ L \in {0, 50} => n = 12
            /\ L = 70 => n = 14
            /\ L >= 100 => n = 20
            /\ Len(LinesTo) = n
            /\ \A j \in 1..(n - 1) :
                  /\ LinesTo[j].a[1].j = j /\ LinesTo[j].a[1].coils = n
                  /\ LinesTo[j].a[2].j = j /\ LinesTo[j].a[2].coils = n
                  /\ LinesTo[j].a[1].offset \in {1, -1}
                  /\ LinesTo[j].a[2].offset = LinesTo[j].a[1].offset
                  /\ j > 1 => LinesTo[j].a[1].offset = -LinesTo[j - 1].a[1].offset
            /\ LinesTo[n].a = <<end.x, end.y>>
            /\ \E i \in 1..Len(drawn) :
                  /\ drawn[i].op = "moveTo"
                  /\ \A h \in 1..Len(drawn) : drawn[h].op = "lineTo" => i < h

\* renderConstraint drew a spring of length 70 as fourteen lines.
C16_Witness ==
    /\ SpringDrawn
    /\ input.constraint.length = 70
    /\ Len(LinesTo) = 14

\* The opacity C18 resolves for a part: the argument when it is given, the
\* part's own otherwise.
Resolved(part) ==
    IF IsSet(input.opacity) THEN Val(input.opacity) ELSE part.render.opacity

\* The parts C18 has drawn: visible, with a resolved opacity other than 0.
Shown(body) ==
    SelectSeq(PartsOf(body), LAMBDA part : part.render.visible /\ Resolved(part) # 0)

StylesSet ==
    SelectSeq(drawn, LAMBDA g : g.op \in {"fillStyle", "lineStyle"})

\* C18: renderBody resolves a part's opacity to the opacity argument whenever
\* it is given, 0 included, and to the part's render.opacity only when it is
\* not given; a part that is not visible or whose resolved opacity is 0 gets
\* no path, fill or stroke, so a body passed with opacity 0 draws nothing.
C18_ResolvedOpacity ==
    call.op = "renderBody" =>
        /\ Cardinality(PathStarts) = Len(Shown(input.body))
        /\ \A i \in 1..Len(StylesSet) :
              \E k \in 1..Len(Shown(input.body)) :
                  StylesSet[i].a[Len(StylesSet[i].a)] = Resolved(Shown(input.body)[k])
        /\ input.opacity = Some(0) => drawn = <<>>

\* The two ends of the constraint, resolved against its bodies.
EndOf(body, point) ==
    IF IsSet(body)
    THEN <<Val(body).position.x + Val(point).x, Val(body).position.y + Val(point).y>>
    ELSE <<Val(point).x, Val(point).y>>

AnchorsAt ==
    {<<drawn[i].a[1], drawn[i].a[2]>> :
        i \in {h \in 1..Len(drawn) : drawn[h].op = "fillCircle"}}

\* C19: for a visible constraint with both endpoint offsets, of any render
\* type, renderConstraint ends without an error; with render.anchors true
\* and anchorSize > 0 it fills a circle at the resolved start point and one
\* at the resolved end point, for a pin too.
C19_AnchorsAtBothEnds ==
    /\ call.op = "renderConstraint"
    /\ input.constraint.render.visible
    /\ IsSet(input.constraint.pointA)
    /\ IsSet(input.constraint.pointB)
    => /\ thrown = None
       /\ input.constraint.render.anchors /\ input.anchorSize > 0 =>
             /\ EndOf(input.constraint.bodyA, input.constraint.pointA) \in AnchorsAt
             /\ EndOf(input.constraint.bodyB, input.constraint.pointB) \in AnchorsAt

\* The moves, lines and closes of a path, and where the pen is before the
\* h-th of them: the point of the move or line before it.
Strokes(path) == SelectSeq(path, LAMBDA g : g.op \in {"moveTo", "lineTo", "closePath"})
PenBefore(strokes, h) == IF h > 1 THEN Some(strokes[h - 1].a) ELSE None

XY(vertex) == <<vertex.x, vertex.y>>

\* The path that goes round the polygon without a break.
Unbroken(vertices) ==
    [h \in 1..(Len(vertices) + 1) |->
        IF h = 1 THEN Gfx("moveTo", XY(vertices[1]), "renderBody", input.body.id)
        ELSE IF h <= Len(vertices)
        THEN Gfx("lineTo", XY(vertices[h]), "renderBody", input.body.id)
        ELSE Gfx("closePath", <<>>, "renderBody", input.body.id)]

\* C22: with showInternalEdges false only internal edges are left out: for
\* every vertex i with i + 1 < n that is not internal, a lineTo(vertex i + 1)
\* is made while the pen is at vertex i; and when no vertex is internal, or
\* showInternalEdges is true, the path is exactly moveTo(v0), lineTo(v1) ...
\* lineTo(v(n-1)), closePath, with no other moveTo.
C22_OnlyInternalEdgesSuppressed ==
    PolygonsDrawn =>
        \A k \in 1..Len(VisibleParts(input.body)) :
            LET vertices == VisibleParts(input.body)[k].vertices
                n == Len(vertices)
                strokes == Strokes(PathOf(k))
            IN  /\ ~input.showInternalEdges =>
                      \A i \in 0..(n - 2) :
                          ~vertices[i + 1].isInternal =>
                              \E h \in 1..Len(strokes) :
                                  /\ strokes[h].op = "lineTo"
                                  /\ strokes[h].a = XY(vertices[i + 2])
                                  /\ PenBefore(strokes, h) = Some(XY(vertices[i + 1]))
                /\ \/ input.showInternalEdges
                   \/ \A i \in 1..n : ~vertices[i].isInternal
                   => strokes = Unbroken(vertices)

\* renderBody drew a quadrilateral whose vertex 1 is internal with
\* showInternalEdges false: a line from vertex 0 to vertex 1, two moves to
\* vertex 2, and a line from vertex 2 to vertex 3.
C22_Witness ==
    /\ PolygonsDrawn
    /\ ~input.showInternalEdges
    /\ Len(input.body.parts) = 1
    /\ LET vertices == input.body.parts[1].vertices
           strokes == Strokes(PathOf(1))
       IN  /\ Len(vertices) = 4
           /\ {i \in 1..4 : vertices[i].isInternal} = {2}
           /\ strokes[2] = Gfx("lineTo", XY(vertices[2]), "renderBody", input.body.id)
           /\ strokes[3] = Gfx("moveTo", XY(vertices[3]), "renderBody", input.body.id)
           /\ strokes[4] = strokes[3]
           /\ strokes[5] = Gfx("lineTo", XY(vertices[4]), "renderBody", input.body.id)

====
